---- MODULE Spec2Model ----
(***************************************************************************)
(* EyMessaging: the WhatsApp conversation service of src/app.py.           *)
(*                                                                         *)
(* POST /sensor-anomaly (sensor_anomaly_alert) resolves a vehicle to its   *)
(* owner and to service centers, upserts the owner's document in the       *)
(* sms_sessions collection and sends the prompt.  POST /sms-reply          *)
(* (sms_reply) reads the session of the replying phone and either stores   *)
(* the chosen center or posts the booking and deletes the session.         *)
(*                                                                         *)
(* A Python string is a sequence of tokens (a token is one character or    *)
(* one opaque word), so that strip, replace, split and the regex prefix    *)
(* match are computed.  A MongoDB document is a function from field names  *)
(* to values and a collection is a set (sms_sessions) or a sequence in     *)
(* natural order (the directories) of documents.  Every await of the       *)
(* handlers that touches sms_sessions or the booking service is a step of  *)
(* its own; reads of the directories, which no handler writes, are taken   *)
(* together with the step that follows them.  The outcome of the booking   *)
(* POST is seen by its handler alone, so it is drawn in the step in which  *)
(* the handler resumes and deletes the session.  A new /sms-reply request  *)
(* takes the lowest free handler: the handlers are interchangeable.        *)
(***************************************************************************)
EXTENDS Integers, Sequences, FiniteSets, TLC

\* ---------------------------------------------------------------- bounds
MaxRequests == 4
NumHandlers == 2

\* ------------------------------------------------------- python helpers
\* Python's None: where a string is expected, and where a document is expected
None == <<"None">>

NoDocument == [none |-> TRUE]

RECURSIVE lstrip(_)
lstrip(s) == IF s # <<>> /\ Head(s) = " " THEN lstrip(Tail(s)) ELSE s

RECURSIVE rstrip(_)
rstrip(s) == IF s # <<>> /\ s[Len(s)] = " " THEN rstrip(SubSeq(s, 1, Len(s) - 1)) ELSE s

strip(s) == rstrip(lstrip(s))

IsNotWhatsappPrefix(c) == c # "whatsapp:"

replace_whatsapp(s) == SelectSeq(s, IsNotWhatsappPrefix)

contains(s, c) == \E i \in DOMAIN s : s[i] = c

split_first(s, c) ==
    LET k == CHOOSE i \in DOMAIN s : s[i] = c /\ \A j \in 1..(i - 1) : s[j] # c
    IN  IF contains(s, c) THEN SubSeq(s, 1, k - 1) ELSE s

lower(c) ==
    CASE c = "T" -> "t"
      [] c = "H" -> "h"
      [] c = "F" -> "f"
      [] OTHER -> c

\* the pattern matched without comparing its characters
regex_prefix_i_any(value, prefix) == Len(prefix) <= Len(value)

regex_prefix_i(value, prefix) ==
    /\ Len(prefix) <= Len(value)
    /\ \A i \in DOMAIN prefix : lower(value[i]) = lower(prefix[i])

get(doc, key, default) == IF key \in DOMAIN doc THEN doc[key] ELSE default

\* the check of line 199 left out
truthy_always(v) == TRUE

truthy(v) == v # None /\ v # <<>>

str(v) == v

\* a cursor read without its length limit
to_list_all(cursor, length) == cursor

to_list(cursor, length) == SubSeq(cursor, 1, IF Len(cursor) < length THEN Len(cursor) ELSE length)

\* --------------------------------------------------- directory contents
Vehicles ==
    << [vehicle_id |-> <<"T", "_", "1">>, user_id |-> <<"u1">>, model |-> <<"T", "a">>],
       [vehicle_id |-> <<"V", "2">>, user_id |-> <<"u2">>, model |-> <<"H", "o">>],
       [vehicle_id |-> <<"V", "3">>, user_id |-> <<"u1">>],
       [vehicle_id |-> <<"T", "_", "5">>, user_id |-> <<"u9">>, model |-> <<"T", "a">>],
       [vehicle_id |-> <<"T", "_", "6">>, user_id |-> <<"u3">>, model |-> <<"T", "a">>],
       [vehicle_id |-> <<"F", "_", "7">>, user_id |-> <<"u1">>, model |-> <<"F", "o">>],
       [vehicle_id |-> <<"h", "_", "8">>, user_id |-> <<"u1">>, model |-> <<"H", "o">>] >>

Users ==
    << [user_id |-> <<"u1">>, phone |-> <<"p1">>],
       [user_id |-> <<"u2">>, phone |-> <<"p2">>],
       [user_id |-> <<"u3">>] >>

ServiceCenters ==
    << [centerId |-> <<"SC1">>, name |-> <<"Tata One">>, location |-> <<"L1">>, company_name |-> <<"T", "a">>],
       [centerId |-> <<"SC2">>, name |-> <<"Tata Two">>, location |-> <<"L2">>, company_name |-> <<"t", "a">>],
       [centerId |-> <<"SC3">>, name |-> <<"Honda One">>, location |-> <<"L3">>, company_name |-> <<"H", "o">>],
       [name |-> <<"Tata Motors Authorized Service">>, location |-> <<"Downtown, Main Street">>, company_name |-> <<"T", "a">>],
       [centerId |-> <<"SC5">>, name |-> <<"Tata Five">>, location |-> <<"L5">>, company_name |-> <<"T", "a">>],
       [centerId |-> <<"SC6">>, name |-> <<"Tata Six">>, location |-> <<"L6">>, company_name |-> <<"T", "a">>],
       [centerId |-> <<"SC7">>, name |-> <<"Tata Seven">>, location |-> <<"L7">>, company_name |-> <<"T", "a">>] >>

\* ------------------------------------------------------ request inputs
\* the alerts posted: each kind of vehicle of the directory, in the modes that
\* tell its outcomes apart
AlertRequests ==
    { [vehicle_id |-> <<"T", "_", "1">>, mode |-> "manual"],
      [vehicle_id |-> <<"T", "_", "1">>, mode |-> "auto"],
      [vehicle_id |-> <<"h", "_", "8">>, mode |-> "manual"],
      [vehicle_id |-> <<"V", "2", " ">>, mode |-> "manual"],
      [vehicle_id |-> <<"T", "_", "6">>, mode |-> "auto"],
      [vehicle_id |-> <<"F", "_", "7">>, mode |-> "manual"],
      [vehicle_id |-> <<"F", "_", "7">>, mode |-> "auto"],
      [vehicle_id |-> <<"V", "3">>, mode |-> "manual"],
      [vehicle_id |-> <<"V", "4">>, mode |-> "auto"],
      [vehicle_id |-> <<"T", "_", "5">>, mode |-> "manual"] }

AlertIssues == { <<"brake wear">> }

ReplyFroms == { <<"whatsapp:", "p1">>, <<"whatsapp:", "p3", " ">> }

ReplyBodies == { <<" ", "1">>, <<"2">>, <<" ">> }

ResponseStatuses == { 200, 201, 500 }

ConfCodes == { 100 }

Handlers == 1..NumHandlers

\* --------------------------------------------------------------- state
VARIABLES
    twilio_client,        \* "Client" or "None" (app.py line 59)
    vehicle_collection,   \* techathon_db.vehicles
    users_collection,     \* techathon_db.users
    admin_collection,     \* auto_ai_db.service_centers
    sms_sessions,         \* auto_ai_db.sms_sessions: a set of documents
    handlers,             \* the sms_reply coroutines in flight
    booking_calls,        \* the POSTs made to BOOKING_API_URL, in order
    twilio_messages,      \* number of messages twilio_client.messages.create accepted
    response,             \* the request that completed last: what it carried, what it returned
    now,                  \* datetime.now() as a logical clock; counts the alerts
    replies               \* number of /sms-reply requests received

vars == << twilio_client, vehicle_collection, users_collection, admin_collection,
           sms_sessions, handlers, booking_calls, twilio_messages, response, now, replies >>

directories == << twilio_client, vehicle_collection, users_collection, admin_collection >>

IdleHandler == [pc |-> "idle"]

Init ==
    /\ twilio_client \in {"Client", "None"}
    /\ vehicle_collection = Vehicles
    /\ users_collection = Users
    /\ admin_collection = ServiceCenters
    /\ sms_sessions = {}
    /\ handlers = [h \in Handlers |-> IdleHandler]
    /\ booking_calls = <<>>
    /\ twilio_messages = 0
    /\ response = [op |-> "none"]
    /\ now = 0
    /\ replies = 0

\* ------------------------------------------------- collection operations
find_matching(collection, key, value) ==
    SelectSeq(collection, LAMBDA d : key \in DOMAIN d /\ d[key] = value)

find_one(collection, key, value) ==
    LET found == find_matching(collection, key, value)
    IN  IF found = <<>> THEN NoDocument ELSE found[1]

find_by_company(collection, company_name) ==
    SelectSeq(collection, LAMBDA d : regex_prefix_i(d.company_name, company_name))

\* the filter on the phone left out
session_matches_any(phone) == sms_sessions

session_matches(phone) == { d \in sms_sessions : d.phone = phone }

\* update_one(filter, {"$set": fields}, upsert): $set writes the named fields
\* and keeps every other field of the matched document
set_fields(doc, fields) == fields @@ doc

\* an update that inserts when nothing matches, whatever upsert says
update_one_upserts(sessions, phone, fields, upsert) ==
    LET found == { d \in sessions : d.phone = phone }
    IN  IF found = {}
        THEN { sessions \cup { set_fields([phone |-> phone], fields) } }
        ELSE { (sessions \ {d}) \cup { set_fields(d, fields) } : d \in found }

update_one(sessions, phone, fields, upsert) ==
    LET found == { d \in sessions : d.phone = phone }
    IN  IF found = {}
        THEN IF upsert
             THEN { sessions \cup { set_fields([phone |-> phone], fields) } }
             ELSE { sessions }
        ELSE { (sessions \ {d}) \cup { set_fields(d, fields) } : d \in found }

\* a delete whose filter matches every document
delete_one_any(sessions, phone) ==
    IF sessions = {} THEN { sessions } ELSE { sessions \ {d} : d \in sessions }

delete_one(sessions, phone) ==
    LET found == { d \in sessions : d.phone = phone }
    IN  IF found = {} THEN { sessions } ELSE { sessions \ {d} : d \in found }

\* ------------------------------------------ POST /sensor-anomaly (alert)
index_str(index) ==
    CASE index = 1 -> <<"1">>
      [] index = 2 -> <<"2">>
      [] index = 3 -> <<"3">>
      [] index = 4 -> <<"4">>
      [] index = 5 -> <<"5">>
      [] OTHER -> <<"n">>

\* a missing model taken as the empty company name
determine_company_empty(alert_vehicle_id, db_company_name) ==
    IF contains(alert_vehicle_id, "_")
    THEN split_first(alert_vehicle_id, "_")
    ELSE IF truthy(db_company_name) THEN db_company_name ELSE <<>>

determine_company(alert_vehicle_id, db_company_name) ==
    IF contains(alert_vehicle_id, "_")
    THEN split_first(alert_vehicle_id, "_")
    ELSE IF truthy(db_company_name) THEN db_company_name ELSE None

build_session_options(centers) ==
    [ k \in { index_str(i) : i \in DOMAIN centers } |->
        LET index == CHOOSE i \in DOMAIN centers : index_str(i) = k
        IN  str(get(centers[index], "centerId", <<"UnknownID">>)) ]

auto_session_fields(alert_vehicle_id, user_id, issue, center_id, timestamp) ==
    [ vehicle_id |-> alert_vehicle_id,
      user_id |-> user_id,
      issue |-> issue,
      selected_center_id |-> center_id,
      state |-> "WAITING_FOR_DATETIME",
      timestamp |-> timestamp ]

manual_session_fields(alert_vehicle_id, user_id, issue, session_options, timestamp) ==
    [ vehicle_id |-> alert_vehicle_id,
      user_id |-> user_id,
      issue |-> issue,
      options |-> session_options,
      state |-> "WAITING_FOR_CENTER",
      timestamp |-> timestamp ]

auto_menu_text(alert_vehicle_id, issue, center) ==
    [ kind |-> "auto", issue |-> issue, vehicle_id |-> alert_vehicle_id,
      center_name |-> get(center, "name", <<"Nearest Center">>),
      location |-> get(center, "location", <<"Unknown">>) ]

manual_menu_text(alert_vehicle_id, issue, company_name, centers) ==
    [ kind |-> "manual", issue |-> issue, vehicle_id |-> alert_vehicle_id,
      company_name |-> company_name,
      lines |-> [ i \in DOMAIN centers |-> << index_str(i), centers[i].name, centers[i].location >> ] ]

AlertResponse(alert_vehicle_id, mode, status, message) ==
    [ op |-> "sensor_anomaly", vehicle_id |-> alert_vehicle_id, mode |-> mode,
      status |-> status, message |-> message ]

AlertReturn(alert_vehicle_id, mode, status, message) ==
    /\ response' = AlertResponse(alert_vehicle_id, mode, status, message)
    /\ UNCHANGED << sms_sessions, twilio_messages >>

\* a send whose failure is swallowed
AlertSend_swallows(alert_vehicle_id, mode, owner_phone, menu_text, twilio_raises) ==
    /\ response' = [ sent |-> [to |-> <<"whatsapp:">> \o owner_phone, body |-> menu_text] ]
                     @@ AlertResponse(alert_vehicle_id, mode, "success", "sent")
    /\ twilio_messages' = IF twilio_raises THEN twilio_messages ELSE twilio_messages + 1

AlertSend(alert_vehicle_id, mode, owner_phone, menu_text, twilio_raises) ==
    IF twilio_raises
    THEN /\ response' = AlertResponse(alert_vehicle_id, mode, "http 500", "twilio failed")
         /\ UNCHANGED twilio_messages
    ELSE /\ response' = [ sent |-> [to |-> <<"whatsapp:">> \o owner_phone, body |-> menu_text] ]
                         @@ AlertResponse(alert_vehicle_id, mode, "success", "sent")
         /\ twilio_messages' = twilio_messages + 1

AlertAuto(alert_vehicle_id, mode, issue, user_id, owner_phone, company_name, twilio_raises) ==
    LET centers == to_list(find_by_company(admin_collection, company_name), 1)
    IN  IF centers = <<>>
        THEN AlertReturn(alert_vehicle_id, mode, "warning", "No service centers found")
        ELSE LET center == centers[1]
                 center_id == get(center, "centerId", <<"UnknownID">>)
             IN  /\ sms_sessions' \in update_one(sms_sessions, owner_phone,
                        auto_session_fields(alert_vehicle_id, user_id, issue, center_id, now + 1), TRUE)
                 /\ AlertSend(alert_vehicle_id, mode, owner_phone, auto_menu_text(alert_vehicle_id, issue, center), twilio_raises)

AlertManual(alert_vehicle_id, mode, issue, user_id, owner_phone, company_name, twilio_raises) ==
    LET centers == to_list(find_by_company(admin_collection, company_name), 5)
    IN  IF centers = <<>>
        THEN AlertReturn(alert_vehicle_id, mode, "warning", "No service centers found")
        ELSE /\ sms_sessions' \in update_one(sms_sessions, owner_phone,
                    manual_session_fields(alert_vehicle_id, user_id, issue,
                                          build_session_options(centers), now + 1), TRUE)
             /\ AlertSend(alert_vehicle_id, mode, owner_phone,
                          manual_menu_text(alert_vehicle_id, issue, company_name, centers),
                          twilio_raises)

sensor_anomaly_alert(alert_vehicle_id, issue, mode, twilio_raises) ==
    /\ now + replies < MaxRequests
    /\ now' = now + 1
    /\ UNCHANGED << directories, handlers, booking_calls, replies >>
    /\ IF twilio_client = "None"
       THEN AlertReturn(alert_vehicle_id, mode, "http 500", "Twilio not configured")
       ELSE
       LET vehicle == find_one(vehicle_collection, "vehicle_id", strip(alert_vehicle_id))
       IN  IF vehicle = NoDocument
           THEN AlertReturn(alert_vehicle_id, mode, "error", "Vehicle ID not registered.")
           ELSE
           LET user_id == get(vehicle, "user_id", None)
               db_company_name == get(vehicle, "model", None)
               user == find_one(users_collection, "user_id", user_id)
           IN  IF user = NoDocument
               THEN AlertReturn(alert_vehicle_id, mode, "error", "Vehicle owner not found.")
               ELSE
               LET owner_phone == get(user, "phone", None)
                   company_name == determine_company(alert_vehicle_id, db_company_name)
               IN  IF company_name = None
                   THEN AlertReturn(alert_vehicle_id, mode, "error", "Could not determine company name.")
                   ELSE IF mode = "auto"
                        THEN AlertAuto(alert_vehicle_id, mode, issue, user_id, owner_phone,
                                       company_name, twilio_raises)
                        ELSE AlertManual(alert_vehicle_id, mode, issue, user_id, owner_phone,
                                         company_name, twilio_raises)

Alert ==
    \E alert \in AlertRequests, issue \in AlertIssues, twilio_raises \in BOOLEAN :
        sensor_anomaly_alert(alert.vehicle_id, issue, alert.mode, twilio_raises)

\* ------------------------------------------------ POST /sms-reply (reply)
ReplyReturn(h, user_phone, user_choice, body) ==
    /\ response' = [op |-> "sms_reply", phone |-> user_phone, choice |-> user_choice, body |-> body]
    /\ handlers' = [handlers EXCEPT ![h] = IdleHandler]

\* the choice not saved with the new state
center_choice_fields_state_only(selected_center_id) ==
    [ state |-> "WAITING_FOR_DATETIME" ]

center_choice_fields(selected_center_id) ==
    [ state |-> "WAITING_FOR_DATETIME",
      selected_center_id |-> selected_center_id ]

\* the payload without its dateTime, which is the wall clock's next day at 10:00
\* a payload that leaves out the selected center
booking_payload_without_center(session, conf_code) ==
    [ vehicleId |-> get(session, "vehicle_id", None),
      confirmationCode |-> conf_code,
      status |-> "CONFIRMED",
      scheduledService |-> [ isScheduled |-> TRUE, serviceCenterId |-> None ],
      userId |-> get(session, "user_id", <<"UNKNOWN_USER">>) ]

booking_payload(session, conf_code) ==
    [ vehicleId |-> get(session, "vehicle_id", None),
      confirmationCode |-> conf_code,
      status |-> "CONFIRMED",
      scheduledService |-> [ isScheduled |-> TRUE,
                             serviceCenterId |-> get(session, "selected_center_id", None) ],
      userId |-> get(session, "user_id", <<"UNKNOWN_USER">>) ]

\* 201 not counted as success
is_success_200_only(status_code) == status_code = 200

is_success(status_code) == status_code \in {200, 201}

final_message(api_success, center_name, display_time, conf_code) ==
    IF api_success
    THEN [ text |-> "BOOKING SUCCESSFUL", center_name |-> center_name,
           time |-> display_time, code |-> conf_code ]
    ELSE [ text |-> "Booking initiated, but the system is slow", center_name |-> center_name,
           time |-> display_time ]

\* lines 183-200 and 222-247: read the session and branch on its state
sms_reply_read(h, From, Body) ==
    /\ handlers[h].pc = "idle"
    /\ \A g \in 1..(h - 1) : handlers[g].pc # "idle"
    /\ now + replies < MaxRequests
    /\ replies' = replies + 1
    /\ UNCHANGED << directories, sms_sessions, booking_calls, twilio_messages, now >>
    /\ LET user_phone == strip(replace_whatsapp(From))
           user_choice == strip(Body)
           found == session_matches(user_phone)
       IN  IF found = {}
           THEN ReplyReturn(h, user_phone, user_choice, [text |-> "Session expired"])
           ELSE \E session \in found :
                LET state == get(session, "state", "WAITING_FOR_CENTER")
                IN  IF state = "WAITING_FOR_CENTER"
                    THEN LET selected_center_id == get(get(session, "options", <<>>), user_choice, None)
                         IN  IF ~truthy(selected_center_id)
                             THEN ReplyReturn(h, user_phone, user_choice, [text |-> "Invalid option"])
                             ELSE /\ handlers' = [handlers EXCEPT ![h] =
                                        [ pc |-> "update_session", user_phone |-> user_phone,
                                          user_choice |-> user_choice, session |-> session,
                                          selected_center_id |-> selected_center_id ]]
                                  /\ UNCHANGED response
                    ELSE IF state = "WAITING_FOR_DATETIME"
                    THEN \E code \in ConfCodes :
                            /\ handlers' = [handlers EXCEPT ![h] =
                                  [ pc |-> "post_booking", user_phone |-> user_phone,
                                    user_choice |-> user_choice, session |-> session,
                                    selected_center_id |-> get(session, "selected_center_id", None),
                                    conf_code |-> code,
                                    booking_payload |-> booking_payload(session, code) ]]
                            /\ UNCHANGED response
                    ELSE ReplyReturn(h, user_phone, user_choice, [text |-> "null"])

\* lines 202-218: store the chosen center and ask for the time
sms_reply_select_center(h) ==
    /\ handlers[h].pc = "update_session"
    /\ UNCHANGED << directories, booking_calls, twilio_messages, now, replies >>
    /\ LET hs == handlers[h]
           center == find_one(admin_collection, "centerId", hs.selected_center_id)
           center_name == IF center # NoDocument THEN center.name ELSE <<"the selected service center">>
       IN  /\ sms_sessions' \in update_one(sms_sessions, hs.user_phone,
                                           center_choice_fields(hs.selected_center_id), FALSE)
           /\ ReplyReturn(h, hs.user_phone, hs.user_choice, [text |-> "Please reply with the Date and Time",
                                             center_name |-> center_name])

\* a POST as the booking service sees it; session_timestamp names the alert whose
\* session the handler read
BookingCall(hs) ==
    [ payload |-> hs.booking_payload, session_timestamp |-> hs.session.timestamp ]

\* lines 249-255: the POST is made
sms_reply_post(h) ==
    /\ handlers[h].pc = "post_booking"
    /\ UNCHANGED << directories, sms_sessions, twilio_messages, response, now, replies >>
    /\ booking_calls' = Append(booking_calls, BookingCall(handlers[h]))
    /\ handlers' = [handlers EXCEPT ![h].pc = "await_response"]

\* lines 263-276: compose the final message, delete the session
sms_reply_finish(h, api_success, status_code) ==
    /\ handlers[h].pc = "await_response"
    /\ UNCHANGED << directories, booking_calls, twilio_messages, now, replies >>
    /\ LET hs == handlers[h]
           center == find_one(admin_collection, "centerId", hs.selected_center_id)
           center_name == IF center # NoDocument THEN center.name ELSE <<"the service center">>
       IN  /\ sms_sessions' \in delete_one(sms_sessions, hs.user_phone)
           /\ response' = [ op |-> "sms_reply", phone |-> hs.user_phone, choice |-> hs.user_choice,
                            status_code |-> status_code,
                            body |-> final_message(api_success, center_name, hs.user_choice, hs.conf_code) ]
           /\ handlers' = [handlers EXCEPT ![h] = IdleHandler]

\* lines 255-259 and 263-276: the POST returns a response
sms_reply_post_response(h, status_code) ==
    sms_reply_finish(h, is_success(status_code), status_code)

\* lines 260-261 and 263-276: the POST raises (timeout, transport error);
\* status_code 0 is no response
sms_reply_post_raises(h) ==
    sms_reply_finish(h, FALSE, 0)

ReplyRead == \E h \in Handlers, From \in ReplyFroms, Body \in ReplyBodies : sms_reply_read(h, From, Body)

ReplySelectCenter == \E h \in Handlers : sms_reply_select_center(h)

ReplyPostResponse == \E h \in Handlers, status_code \in ResponseStatuses : sms_reply_post_response(h, status_code)

ReplyPostRaises == \E h \in Handlers : sms_reply_post_raises(h)

ReplyPost == \E h \in Handlers : sms_reply_post(h)

Next ==
    \/ Alert
    \/ ReplyRead
    \/ ReplySelectCenter
    \/ ReplyPost
    \/ ReplyPostResponse
    \/ ReplyPostRaises

Spec == Init /\ [][Next]_vars

\* the requests of one phone handled one after the other: no alert rewrites
\* the session of a phone whose reply is being handled, and no reply of a phone
\* is received while another reply of that phone is being handled
SerialAlert ==
    /\ Alert
    /\ \A h \in Handlers :
          handlers[h].pc # "idle" =>
             { d \in sms_sessions' : d.phone = handlers[h].user_phone }
                = { d \in sms_sessions : d.phone = handlers[h].user_phone }

SerialReplyRead ==
    /\ ReplyRead
    /\ \A h \in Handlers :
          handlers[h].pc # "idle" =>
             /\ handlers' # handlers
             /\ \A g \in Handlers :
                   handlers'[g] # handlers[g] => handlers'[g].user_phone # handlers[h].user_phone

SerialNext ==
    \/ SerialAlert
    \/ SerialReplyRead
    \/ ReplySelectCenter
    \/ ReplyPost
    \/ ReplyPostResponse
    \/ ReplyPostRaises

SerialSpec == Init /\ [][SerialNext]_vars

\* ------------------------------------------------------------ typing
SessionStates == { "WAITING_FOR_CENTER", "WAITING_FOR_DATETIME" }

TypeOK ==
    /\ now + replies \in 0..MaxRequests
    /\ \A h \in Handlers : handlers[h].pc \in {"idle", "update_session", "post_booking", "await_response"}
    /\ twilio_messages \in 0..now
    /\ Len(booking_calls) <= replies

\* ------------------------------------------------- vocabulary of the claims
HasField(d, f) == f \in DOMAIN d

SessionsOf(sessions, phone) == { d \in sessions : d.phone = phone }

Text(r) == IF r.op = "sms_reply" THEN r.body.text ELSE ""

Status(r) == IF r.op = "sensor_anomaly" THEN r.status ELSE ""

AskDateTime == "Please reply with the Date and Time"

\* a step that receives a reply, and the phone and trimmed text it carries
ReplyReadStep == replies' = replies + 1

ReadHandler == CHOOSE h \in Handlers : handlers'[h] # handlers[h]

ReadPhone == IF handlers' = handlers THEN response'.phone ELSE handlers'[ReadHandler].user_phone

ReadChoice == IF handlers' = handlers THEN response'.choice ELSE handlers'[ReadHandler].user_choice

\* a step that handles an alert, and what the directories say about its vehicle
AlertStep == now' = now + 1

VehiclesOf(v) ==
    LET id == strip(v)
    IN  { i \in DOMAIN vehicle_collection : vehicle_collection[i].vehicle_id = id }

OwnersOf(v) ==
    LET ids == { vehicle_collection[i].user_id : i \in VehiclesOf(v) }
    IN  { j \in DOMAIN users_collection : users_collection[j].user_id \in ids }

HasSeparator(v) == \E k \in DOMAIN v : v[k] = "_"

SameLetter(a, b) == a = b \/ {a, b} \in { {"T", "t"}, {"H", "h"}, {"F", "f"} }

BrandsOf(v) ==
    IF HasSeparator(v)
    THEN { SubSeq(v, 1, k - 1) : k \in { k \in DOMAIN v : v[k] = "_" /\ \A j \in 1..(k - 1) : v[j] # "_" } }
    ELSE { vehicle_collection[i].model : i \in { i \in VehiclesOf(v) : HasField(vehicle_collection[i], "model") } }

CentersOfBrand(brand) ==
    { c \in DOMAIN admin_collection :
        /\ Len(brand) <= Len(admin_collection[c].company_name)
        /\ \A k \in DOMAIN brand : SameLetter(admin_collection[c].company_name[k], brand[k]) }

InputResolutionFails(v) == VehiclesOf(v) = {} \/ OwnersOf(v) = {} \/ BrandsOf(v) = {}

OwnerHasNoPhone(v) ==
    /\ ~InputResolutionFails(v)
    /\ \A j \in OwnersOf(v) : ~HasField(users_collection[j], "phone")

NoCentersFound(v) ==
    /\ ~InputResolutionFails(v)
    /\ \A brand \in BrandsOf(v) : CentersOfBrand(brand) = {}

\* ---------------------------------------------------------------- claims

\* C1: the booking call is issued at most once for the session an alert
\* created, also when two replies of one phone are handled concurrently.
\* The session of an alert is named by the timestamp the alert wrote.
C1_BookingOncePerSession ==
    \A i, j \in DOMAIN booking_calls :
        booking_calls[i].session_timestamp = booking_calls[j].session_timestamp => i = j

\* C2: every session is in WAITING_FOR_CENTER or WAITING_FOR_DATETIME, and a
\* session in WAITING_FOR_DATETIME has a non-empty selected_center_id.
C2_SessionStateInvariant ==
    \A d \in sms_sessions :
        /\ HasField(d, "state")
        /\ d.state \in SessionStates
        /\ d.state = "WAITING_FOR_DATETIME" =>
              /\ HasField(d, "selected_center_id")
              /\ d.selected_center_id # None
              /\ d.selected_center_id # <<>>

C2_Witness ==
    \E d \in sms_sessions :
        /\ d.state = "WAITING_FOR_DATETIME"
        /\ HasField(d, "options")
        /\ Text(response) = AskDateTime
        /\ response.phone = d.phone

\* C3: a reply read against a session in WAITING_FOR_DATETIME goes on to the
\* booking call; when its handler finishes, the booking call has been made, no
\* session of that phone is left whatever the outcome was, and the reply is the
\* success message exactly when the status was 200 or 201, the degraded one
\* otherwise.
C3_TerminalReplyDeletesSession ==
    [][ /\ ( /\ ReplyReadStep
             /\ \E d \in SessionsOf(sms_sessions, ReadPhone) : d.state = "WAITING_FOR_DATETIME" )
           => \E h \in Handlers : handlers[h].pc = "idle" /\ handlers'[h].pc = "post_booking"
        /\ \A h \in Handlers :
             (handlers[h].pc = "await_response" /\ handlers'[h].pc = "idle") =>
                /\ \E i \in DOMAIN booking_calls : booking_calls[i].payload = handlers[h].booking_payload
                /\ booking_calls' = booking_calls
                /\ SessionsOf(sms_sessions', handlers[h].user_phone) = {}
                /\ response'.op = "sms_reply"
                /\ response'.phone = handlers[h].user_phone
                /\ Text(response') = IF response'.status_code \in {200, 201}
                                     THEN "BOOKING SUCCESSFUL"
                                     ELSE "Booking initiated, but the system is slow"
      ]_vars

C3_Witness ==
    /\ Text(response) = "Booking initiated, but the system is slow"
    /\ SessionsOf(sms_sessions, response.phone) = {}
    /\ booking_calls # <<>>

\* C4: an alert that reaches the upsert replaces the session of the phone: the
\* session a manual alert wrote has no selected_center_id, the session an auto
\* alert wrote has no options, and no phone has two sessions.
C4_AlertReplacesSession ==
    /\ [](\A d, e \in sms_sessions : d.phone = e.phone => d = e)
    /\ [][ AlertStep =>
             \A d \in sms_sessions' \ sms_sessions :
                /\ d.state = "WAITING_FOR_CENTER" => ~HasField(d, "selected_center_id")
                /\ d.state = "WAITING_FOR_DATETIME" => ~HasField(d, "options")
         ]_vars

\* C5: a reply whose trimmed text is not a key of options, read against a
\* session in WAITING_FOR_CENTER, returns the invalid-option message at once:
\* no session changes, no booking call is made, no handler stays in flight.
C5_InvalidTokenLeavesSession ==
    [][ ( /\ ReplyReadStep
          /\ \E d \in SessionsOf(sms_sessions, ReadPhone) :
                /\ d.state = "WAITING_FOR_CENTER"
                /\ ~(HasField(d, "options") /\ ReadChoice \in DOMAIN d.options) )
        => /\ handlers' = handlers
           /\ sms_sessions' = sms_sessions
           /\ booking_calls' = booking_calls
           /\ Text(response') = "Invalid option"
      ]_vars

C5_Witness ==
    /\ Text(response) = "Invalid option"
    /\ response.choice # <<>>
    /\ \E d \in SessionsOf(sms_sessions, response.phone) :
          /\ d.state = "WAITING_FOR_CENTER"
          /\ response.choice \notin DOMAIN d.options
    /\ \E h \in Handlers :
          /\ handlers[h].pc = "update_session"
          /\ handlers[h].user_phone = response.phone

\* C6: a reply whose token is a key of options, read against a session in
\* WAITING_FOR_CENTER, takes the center id mapped to the token and makes no
\* booking call; its write sets selected_center_id of the phone's session to
\* that id and state to WAITING_FOR_DATETIME, leaves vehicle_id, user_id and
\* issue as they were, and the reply is the date/time prompt.
C6_ValidTokenSelectsCenter ==
    [][ /\ ReplyReadStep =>
             \A d \in SessionsOf(sms_sessions, ReadPhone) :
                ( /\ d.state = "WAITING_FOR_CENTER"
                  /\ HasField(d, "options")
                  /\ ReadChoice \in DOMAIN d.options )
                => /\ sms_sessions' = sms_sessions
                   /\ booking_calls' = booking_calls
                   /\ \E h \in Handlers :
                         /\ handlers[h].pc = "idle"
                         /\ handlers'[h].pc = "update_session"
                         /\ handlers'[h].selected_center_id = d.options[ReadChoice]
        /\ \A h \in Handlers :
             (handlers[h].pc = "update_session" /\ handlers'[h].pc = "idle") =>
                /\ booking_calls' = booking_calls
                /\ Text(response') = AskDateTime
                /\ response'.phone = handlers[h].user_phone
                /\ \A d \in SessionsOf(sms_sessions, handlers[h].user_phone) :
                      \E e \in SessionsOf(sms_sessions', handlers[h].user_phone) :
                         /\ e.state = "WAITING_FOR_DATETIME"
                         /\ HasField(e, "selected_center_id")
                         /\ e.selected_center_id = handlers[h].session.options[handlers[h].user_choice]
                         /\ e.vehicle_id = d.vehicle_id
                         /\ e.user_id = d.user_id
                         /\ e.issue = d.issue
      ]_vars

C6_Witness ==
    /\ Text(response) = AskDateTime
    /\ booking_calls = <<>>
    /\ \E d \in SessionsOf(sms_sessions, response.phone) :
          /\ d.state = "WAITING_FOR_DATETIME"
          /\ HasField(d, "options")
          /\ response.choice \in DOMAIN d.options
          /\ d.selected_center_id = d.options[response.choice]

\* C7: a reply from a phone that has no session returns the session-expired
\* message, changes and creates no session, and makes no booking call.
C7_NoSessionReply ==
    [][ (ReplyReadStep /\ SessionsOf(sms_sessions, ReadPhone) = {})
        => /\ handlers' = handlers
           /\ sms_sessions' = sms_sessions
           /\ booking_calls' = booking_calls
           /\ Text(response') = "Session expired"
      ]_vars

C7_Witness ==
    /\ Text(response) = "Session expired"
    /\ SessionsOf(sms_sessions, response.phone) = {}
    /\ sms_sessions # {}

\* C8: an alert whose vehicle is not registered, whose owner is not found or
\* whose brand cannot be resolved ends with an error, changes no session and
\* sends no message.
C8_InputResolutionFailure ==
    [][ (AlertStep /\ InputResolutionFails(response'.vehicle_id))
        => /\ Status(response') = IF twilio_client = "None" THEN "http 500" ELSE "error"
           /\ sms_sessions' = sms_sessions
           /\ twilio_messages' = twilio_messages
      ]_vars

C8_Witness ==
    /\ Status(response) = "error"
    /\ response.message = "Could not determine company name."
    /\ SessionsOf(sms_sessions, <<"p1">>) # {}

\* C9: an alert whose owner has no phone number fails: no session is created
\* or modified, none is keyed by the absent phone, and no message is sent.
C9_NoContactChannel ==
    [][ (AlertStep /\ OwnerHasNoPhone(response'.vehicle_id))
        => /\ Status(response') \in {"error", "http 500"}
           /\ sms_sessions' = sms_sessions
           /\ SessionsOf(sms_sessions', None) = {}
           /\ twilio_messages' = twilio_messages
      ]_vars

\* C10: an alert, manual or auto, whose brand matches no service center ends
\* with the warning outcome, changes no session and sends no message.
C10_NoCentersFound ==
    [][ (AlertStep /\ twilio_client # "None" /\ NoCentersFound(response'.vehicle_id))
        => /\ Status(response') = "warning"
           /\ sms_sessions' = sms_sessions
           /\ twilio_messages' = twilio_messages
      ]_vars

C10_Witness ==
    /\ Status(response) = "warning"
    /\ response.mode = "auto"
    /\ SessionsOf(sms_sessions, <<"p1">>) # {}

\* the owner phones of a vehicle, its matching centers in directory order,
\* and the id a center is offered under
OwnerPhonesOf(v) ==
    { IF HasField(users_collection[j], "phone") THEN users_collection[j].phone ELSE None :
        j \in OwnersOf(v) }

MatchingCenters(v) ==
    LET brands == BrandsOf(v)
        Matches(center) ==
            \E brand \in brands :
               /\ Len(brand) <= Len(center.company_name)
               /\ \A k \in DOMAIN brand : SameLetter(center.company_name[k], brand[k])
    IN  SelectSeq(admin_collection, Matches)

CenterIdOf(center) ==
    IF HasField(center, "centerId") THEN center.centerId ELSE <<"UnknownID">>

Token(i) == << CASE i = 1 -> "1" [] i = 2 -> "2" [] i = 3 -> "3" [] i = 4 -> "4" [] OTHER -> "5" >>

Min(a, b) == IF a < b THEN a ELSE b

\* an alert step that got as far as writing the session of the owner: the
\* vehicle has an owner and its brand matches a center
AlertWrites(v) ==
    /\ AlertStep
    /\ twilio_client # "None"
    /\ OwnersOf(v) # {}
    /\ MatchingCenters(v) # <<>>

\* C11: a manual alert with n >= 1 matching centers writes options with
\* exactly min(n, 5) entries, keyed "1" .. min(n, 5), token i mapped to the
\* id of the i-th matching center in directory order (the placeholder
\* "UnknownID" for a center stored without centerId), in WAITING_FOR_CENTER;
\* an auto alert writes the id of the first matching center as
\* selected_center_id and creates the session directly in
\* WAITING_FOR_DATETIME.
C11_AlertOffersCenters ==
    [][ (AlertStep /\ twilio_client # "None") =>
          LET v == response'.vehicle_id
              S == MatchingCenters(v)
              n == Min(Len(S), 5)
              phones == OwnerPhonesOf(v)
          IN  (phones # {} /\ S # <<>>) =>
              \A phone \in phones :
                /\ SessionsOf(sms_sessions', phone) # {}
                /\ \A d \in SessionsOf(sms_sessions', phone) :
                      IF response'.mode = "auto"
                      THEN /\ d.state = "WAITING_FOR_DATETIME"
                           /\ HasField(d, "selected_center_id")
                           /\ d.selected_center_id = CenterIdOf(S[1])
                      ELSE /\ d.state = "WAITING_FOR_CENTER"
                           /\ HasField(d, "options")
                           /\ DOMAIN d.options = { Token(i) : i \in 1..n }
                           /\ \A i \in 1..n : d.options[Token(i)] = CenterIdOf(S[i])
      ]_vars

C11_Witness ==
    /\ Status(response) = "success"
    /\ response.mode = "manual"
    /\ Len(MatchingCenters(response.vehicle_id)) = 6
    /\ \E d \in SessionsOf(sms_sessions, <<"p1">>) :
          /\ d.vehicle_id = response.vehicle_id
          /\ d.state = "WAITING_FOR_CENTER"
          /\ Cardinality(DOMAIN d.options) = 5
          /\ d.options[<<"3">>] = <<"UnknownID">>
          /\ d.options[<<"5">>] = <<"SC6">>

\* C12: when the send of an alert's prompt fails (the session was written and
\* no message went out), the request ends with the delivery-failure error
\* and the session written for that alert stays as written; a later reply of
\* that phone is read against it.
C12_SendFailureKeepsSession ==
    [][ (AlertWrites(response'.vehicle_id) /\ twilio_messages' = twilio_messages) =>
          /\ Status(response') = "http 500"
          /\ \A phone \in OwnerPhonesOf(response'.vehicle_id) :
                \E d \in SessionsOf(sms_sessions', phone) :
                   /\ d.timestamp = now'
                   /\ d.vehicle_id = response'.vehicle_id
                   /\ d.state = IF response'.mode = "auto"
                                THEN "WAITING_FOR_DATETIME" ELSE "WAITING_FOR_CENTER"
      ]_vars

C12_Witness ==
    /\ twilio_messages = 0
    /\ now = 1
    /\ \E h \in Handlers :
          /\ handlers[h].pc = "update_session"
          /\ handlers[h].user_phone = <<"p1">>
          /\ handlers[h].session.timestamp = 1
    /\ \E d \in SessionsOf(sms_sessions, <<"p1">>) : d.timestamp = 1

\* the ids an alert for vehicle v offers (manual) or selects from (auto)
OfferedIds(v) ==
    LET S == MatchingCenters(v)
    IN  { CenterIdOf(S[i]) : i \in 1..Min(Len(S), 5) }

CallsOf(calls, timestamp) == { i \in DOMAIN calls : calls[i].session_timestamp = timestamp }

\* C13: with the requests of a phone handled one after the other
\* (SerialSpec): a reply read against a session in WAITING_FOR_CENTER with a
\* valid token stores the chosen center and moves the session to
\* WAITING_FOR_DATETIME; a reply read against a session in
\* WAITING_FOR_DATETIME (the first reply after an auto alert, the further
\* reply after a manual choice) goes on to the booking call; that call is the
\* only one for the alert's session and carries the session's
\* selected_center_id, vehicle_id and user_id, which are those of one alert of
\* the directory; and finishing it deletes the session.
C13_SerialConversation ==
    [][ /\ ReplyReadStep =>
             \A d \in SessionsOf(sms_sessions, ReadPhone) :
                /\ d.state = "WAITING_FOR_DATETIME" =>
                      \E h \in Handlers :
                         /\ handlers[h].pc = "idle"
                         /\ handlers'[h].pc = "post_booking"
                         /\ handlers'[h].session = d
                /\ ( /\ d.state = "WAITING_FOR_CENTER"
                     /\ HasField(d, "options")
                     /\ ReadChoice \in DOMAIN d.options ) =>
                      \E h \in Handlers :
                         /\ handlers[h].pc = "idle"
                         /\ handlers'[h].pc = "update_session"
                         /\ handlers'[h].session = d
        /\ \A h \in Handlers :
             /\ (handlers[h].pc = "update_session" /\ handlers'[h].pc = "idle") =>
                   /\ SessionsOf(sms_sessions, handlers[h].user_phone) = { handlers[h].session }
                   /\ booking_calls' = booking_calls
                   /\ \A e \in SessionsOf(sms_sessions', handlers[h].user_phone) :
                         /\ e.state = "WAITING_FOR_DATETIME"
                         /\ e.selected_center_id = handlers[h].session.options[handlers[h].user_choice]
                         /\ e.timestamp = handlers[h].session.timestamp
                   /\ SessionsOf(sms_sessions', handlers[h].user_phone) # {}
             /\ (handlers[h].pc = "post_booking" /\ handlers'[h].pc = "await_response") =>
                   /\ SessionsOf(sms_sessions, handlers[h].user_phone) = { handlers[h].session }
                   /\ CallsOf(booking_calls, handlers[h].session.timestamp) = {}
                   /\ Len(booking_calls') = Len(booking_calls) + 1
                   /\ LET d == handlers[h].session
                          c == booking_calls'[Len(booking_calls')]
                      IN  /\ c.session_timestamp = d.timestamp
                          /\ c.payload.vehicleId = d.vehicle_id
                          /\ c.payload.userId = d.user_id
                          /\ c.payload.scheduledService.serviceCenterId = d.selected_center_id
                          /\ d.selected_center_id \in OfferedIds(d.vehicle_id)
                          /\ \E j \in OwnersOf(d.vehicle_id) : users_collection[j].user_id = d.user_id
             /\ (handlers[h].pc = "await_response" /\ handlers'[h].pc = "idle") =>
                   /\ SessionsOf(sms_sessions, handlers[h].user_phone) = { handlers[h].session }
                   /\ SessionsOf(sms_sessions', handlers[h].user_phone) = {}
                   /\ booking_calls' = booking_calls
                   /\ Cardinality(CallsOf(booking_calls', handlers[h].session.timestamp)) = 1
      ]_vars

C13_Witness ==
    /\ now = 1
    /\ replies = 2
    /\ \A h \in Handlers : handlers[h].pc = "idle"
    /\ Text(response) \in { "BOOKING SUCCESSFUL", "Booking initiated, but the system is slow" }
    /\ SessionsOf(sms_sessions, <<"p1">>) = {}
    /\ Len(booking_calls) = 1
    /\ booking_calls[1].payload.scheduledService.serviceCenterId = <<"SC2">>
    /\ booking_calls[1].payload.vehicleId = <<"T", "_", "1">>

\* C14: a session carries options only while its state is
\* WAITING_FOR_CENTER: a session in WAITING_FOR_DATETIME has no options.
C14_OptionsOnlyWhileChoosing ==
    \A d \in sms_sessions : d.state = "WAITING_FOR_DATETIME" => ~HasField(d, "options")

\* C15: the reply that finishes a booking deletes only the session it read:
\* a session written by a later alert for the phone stays until a reply of
\* its own conversation finishes.
C15_DeleteOnlyOwnSession ==
    [][ \A h \in Handlers :
          (handlers[h].pc = "await_response" /\ handlers'[h].pc = "idle") =>
             \A d \in SessionsOf(sms_sessions, handlers[h].user_phone) :
                d \notin sms_sessions' => d.timestamp = handlers[h].session.timestamp
      ]_vars

\* C16: between the alert that wrote a session and its deletion, reply
\* handling writes to the session at most once: the write of a center choice
\* finds the session of the alert it read still in WAITING_FOR_CENTER, and so
\* no other reply has set selected_center_id on it before.
C16_SingleReplyWrite ==
    [][ \A h \in Handlers :
          (handlers[h].pc = "update_session" /\ handlers'[h].pc = "idle") =>
             \A d \in SessionsOf(sms_sessions, handlers[h].user_phone) :
                d.timestamp = handlers[h].session.timestamp => d.state = "WAITING_FOR_CENTER"
      ]_vars

\* C17: a reply whose trimmed text is empty, read against a session in
\* WAITING_FOR_DATETIME, starts no booking and leaves the session in place.
C17_EmptyReplyDoesNotBook ==
    [][ ReplyReadStep =>
          \A d \in SessionsOf(sms_sessions, ReadPhone) :
             (d.state = "WAITING_FOR_DATETIME" /\ ReadChoice = <<>>) =>
                /\ \A h \in Handlers : handlers'[h].pc # "post_booking" \/ handlers[h].pc = "post_booking"
                /\ sms_sessions' = sms_sessions
                /\ booking_calls' = booking_calls
      ]_vars

\* C18: the vehicleId, userId and serviceCenterId of every booking call come
\* from one alert: the userId is the owner of the vehicle and the
\* serviceCenterId is one of the ids an alert for that vehicle offers or
\* selects.
C18_PayloadFromOneAlert ==
    \A i \in DOMAIN booking_calls :
        LET c == booking_calls[i].payload
        IN  /\ c.scheduledService.serviceCenterId \in OfferedIds(c.vehicleId)
            /\ \E j \in OwnersOf(c.vehicleId) : users_collection[j].user_id = c.userId

\* C19: reply handling never creates a session: after a step that is not an
\* alert, every phone that has a session had one before; in particular the
\* write of a center choice that finds no session of its phone leaves the
\* phone without a session.
C19_RepliesCreateNoSession ==
    [][ /\ ~AlertStep => \A e \in sms_sessions' : SessionsOf(sms_sessions, e.phone) # {}
        /\ \A h \in Handlers :
             ( /\ handlers[h].pc = "update_session"
               /\ handlers'[h].pc = "idle"
               /\ SessionsOf(sms_sessions, handlers[h].user_phone) = {} )
             => SessionsOf(sms_sessions', handlers[h].user_phone) = {}
      ]_vars

C19_Witness ==
    /\ Text(response) = AskDateTime
    /\ SessionsOf(sms_sessions, response.phone) = {}
    /\ booking_calls # <<>>

\* the sessions of every phone outside Ps are the same before and after
OthersUnchanged(Ps) ==
    \A d \in sms_sessions \cup sms_sessions' :
        d.phone \notin Ps => (d \in sms_sessions /\ d \in sms_sessions')

\* C20: an alert whose owner phone is P, and every step of a reply from
\* phone P, leaves the sessions of all other phones as they were; no step
\* changes the vehicles, the users or the service centers.
C20_OtherPhonesUntouched ==
    [][ /\ vehicle_collection' = vehicle_collection
        /\ users_collection' = users_collection
        /\ admin_collection' = admin_collection
        /\ AlertStep => LET phones == OwnerPhonesOf(response'.vehicle_id) IN OthersUnchanged(phones)
        /\ ReplyReadStep => OthersUnchanged({ReadPhone})
        /\ \A h \in Handlers :
             (handlers[h].pc # "idle" /\ handlers'[h] # handlers[h]) =>
                OthersUnchanged({handlers[h].user_phone})
      ]_vars

C20_Witness ==
    /\ Text(response) \in { "BOOKING SUCCESSFUL", "Booking initiated, but the system is slow" }
    /\ response.phone = <<"p1">>
    /\ SessionsOf(sms_sessions, <<"p1">>) = {}
    /\ SessionsOf(sms_sessions, <<"p2">>) # {}

====
